---- MODULE Spec2Model ----
(***************************************************************************)
(* A model of the augmented-video client (src/src/client): the terrain     *)
(* tile loader and rewriter, the drawing-area calculator and the           *)
(* application's camera, renderer and event handlers.                      *)
(*                                                                         *)
(* Numbers.  Pixel sizes, aspect ratios and NDC coordinates are exact      *)
(* rationals [n, d] kept in lowest terms; the rounding of IEEE double      *)
(* arithmetic is not modelled.  Terrain coordinates are integers counting  *)
(* quarter metres; storing one into a Float32Array rounds it to 24         *)
(* significant bits (Fround).  Angles are whole multiples of 90 degrees,   *)
(* where sine and cosine are exactly -1, 0 or 1.                           *)
(***************************************************************************)
EXTENDS Integers, Sequences, FiniteSets, TLC

VARIABLES
    \* fetchRewriteAndLoadColladaTerrainTiles: arguments, locals, position
    urls, rotations, i, bBox, scene, tilePc, inFlight, fetchLog, origModels,
    warnings, result,
    \* calcDrawingArea / withinDrawingNDC applied to drawn arguments
    argAspect, argCoord, drawingArea, within, areaPc,
    \* the browser window
    innerWidth, innerHeight, devicePixelRatio,
    \* simplestTerrainDemo: its position, objects, closure variables, and the
    \* keydown handlers suspended at an await
    appPc, camera, renderer, overlay, spotLight, currentItem, handlers, presses,
    mousePos, mouseClicked, showNormal, showCoord, elfs, coordText, arrowVisible,
    rendered,
    \* the last pointer position reported by a mousemove event, the failed
    \* fetches so far, and the text nodes appended to document.body
    pointer, failures, bodyText,
    \* matrixYPR / cameraRotationYPR / createUtmToEcefConverter applied to
    \* drawn arguments
    argYaw, argPitch, argRoll, argToEcef, ypr, cameraRot, argZone, converter, fnPc

tileVars == <<urls, rotations, i, bBox, scene, tilePc, inFlight, fetchLog,
              origModels, warnings, result>>
areaVars == <<argAspect, argCoord, drawingArea, within, areaPc>>
windowVars == <<innerWidth, innerHeight, devicePixelRatio>>
appVars == <<appPc, camera, renderer, overlay, spotLight, currentItem, handlers,
             presses, mousePos, mouseClicked, showNormal, showCoord, elfs,
             coordText, arrowVisible, rendered, pointer, failures, bodyText>>
logVars == <<failures, bodyText>>
fnVars == <<argYaw, argPitch, argRoll, argToEcef, ypr, cameraRot, argZone, converter,
            fnPc>>
vars == <<tileVars, areaVars, windowVars, appVars, fnVars>>

-----------------------------------------------------------------------------
(* Bounds of the model *)

MaxUrls == 3

MaxPresses == 2

MaxElfs == 2

MaxTurns == 2

ZoneMargin == 20

MaxAspect == 3

MaxWin == 3

NdcScale == 2

-----------------------------------------------------------------------------
(* Integer helpers *)

Abs(n) == IF n < 0 THEN -n ELSE n

Min2(a, b) == IF a <= b THEN a ELSE b

Max2(a, b) == IF a >= b THEN a ELSE b

RECURSIVE Gcd(_, _)
Gcd(a, b) == IF b = 0 THEN a ELSE Gcd(b, a % b)

RECURSIVE Pow2(_)
Pow2(n) == IF n = 0 THEN 1 ELSE 2 * Pow2(n - 1)

SeqsUpTo(S, n) == UNION {[1..k -> S] : k \in 0..n}

-----------------------------------------------------------------------------
(* Exact rationals [n, d] in lowest terms with d > 0, for the numbers of   *)
(* the drawing area.                                                       *)

Rat(n, d) ==
    LET g == Gcd(Abs(n), Abs(d))
        s == IF d < 0 THEN -1 ELSE 1
    IN  [n |-> (s * n) \div g, d |-> (s * d) \div g]

RInt(k) == [n |-> k, d |-> 1]

RAdd(a, b) == Rat(a.n * b.d + b.n * a.d, a.d * b.d)

RSub(a, b) == Rat(a.n * b.d - b.n * a.d, a.d * b.d)

RMul(a, b) == Rat(a.n * b.n, a.d * b.d)

RDiv(a, b) == Rat(a.n * b.d, a.d * b.n)

RNeg(a) == [n |-> -a.n, d |-> a.d]

RLt(a, b) == a.n * b.d < b.n * a.d

RLe(a, b) == a.n * b.d <= b.n * a.d

-----------------------------------------------------------------------------
(* Vectors and 3x3 matrices over the integers (Three.Vector3, the rotation *)
(* part of Three.Matrix4 / Three.Quaternion).                              *)

Identity3 == <<<<1, 0, 0>>, <<0, 1, 0>>, <<0, 0, 1>>>>

MatVec(m, v) == [r \in 1..3 |-> m[r][1] * v[1] + m[r][2] * v[2] + m[r][3] * v[3]]

MatMul(a, b) ==
    [r \in 1..3 |-> [c \in 1..3 |->
        a[r][1] * b[1][c] + a[r][2] * b[2][c] + a[r][3] * b[3][c]]]

VecAdd(a, b) == [k \in 1..3 |-> a[k] + b[k]]

\* Three.Euler(-90 deg, -90 deg, 0, 'YXZ') as a matrix: RotY(-90) * RotX(-90).
EcefToGLRotation ==
    MatMul(<<<<0, 0, -1>>, <<0, 1, 0>>, <<1, 0, 0>>>>,
           <<<<1, 0, 0>>, <<0, 0, 1>>, <<0, -1, 0>>>>)

-----------------------------------------------------------------------------
(* Float32Array storage (app_util.ts:267-270, 285): a number written into  *)
(* the fresh position buffer keeps 24 significant bits, round to nearest,  *)
(* ties to even.                                                           *)

Float32Mantissa == 24

RECURSIVE Quantum(_, _)
Quantum(a, q) == IF a < Pow2(Float32Mantissa) * q THEN q ELSE Quantum(a, 2 * q)

Fround(n) ==
    LET q   == Quantum(Abs(n), 1)
        lo  == (n \div q) * q
        rem == n - lo
    IN  IF 2 * rem < q THEN lo
        ELSE IF 2 * rem > q THEN lo + q
        ELSE IF (lo \div q) % 2 = 0 THEN lo ELSE lo + q

-----------------------------------------------------------------------------
(* The UTM -> ECEF converter is proj4 (an external library).  It stands    *)
(* here in its tangent-plane form at the origin of the zone, in quarter    *)
(* metres: up becomes ECEF x, easting less the false easting becomes y,    *)
(* northing becomes z.                                                     *)

EarthRadius == 25512548

FalseEasting == 2000000

Forward(p) == <<EarthRadius + p[3], p[1] - FalseEasting, p[2]>>

-----------------------------------------------------------------------------
(* Three.Box3 *)

EmptyBox == [isEmpty |-> TRUE, min |-> <<0, 0, 0>>, max |-> <<0, 0, 0>>]

ExpandByPoint(box, p) ==
    IF box.isEmpty
    THEN [isEmpty |-> FALSE, min |-> p, max |-> p]
    ELSE [isEmpty |-> FALSE,
          min |-> [k \in 1..3 |-> Min2(box.min[k], p[k])],
          max |-> [k \in 1..3 |-> Max2(box.max[k], p[k])]]

BoxUnion_KeepLast(a, b) == IF b.isEmpty THEN a ELSE b

BoxUnion(a, b) ==
    IF b.isEmpty THEN a
    ELSE IF a.isEmpty THEN b
    ELSE [isEmpty |-> FALSE,
          min |-> [k \in 1..3 |-> Min2(a.min[k], b.min[k])],
          max |-> [k \in 1..3 |-> Max2(a.max[k], b.max[k])]]

Corners(box) ==
    {<<x, y, z>> : x \in {box.min[1], box.max[1]},
                   y \in {box.min[2], box.max[2]},
                   z \in {box.min[3], box.max[3]}}

RECURSIVE SetFromPoints(_, _)
SetFromPoints(box, S) ==
    IF S = {} THEN box
    ELSE LET p == CHOOSE q \in S : TRUE
         IN  SetFromPoints(ExpandByPoint(box, p), S \ {p})

\* Box3.applyMatrix4: an empty box stays empty, otherwise the box of the
\* eight transformed corners.
BoxApplyMatrix(box, m) ==
    IF box.isEmpty THEN box
    ELSE SetFromPoints(EmptyBox, {MatVec(m, c) : c \in Corners(box)})

-----------------------------------------------------------------------------
(* Three.BufferAttribute: a flat array read and written in items of three. *)

GetXYZ(array, k) == <<array[3 * k + 1], array[3 * k + 2], array[3 * k + 3]>>

SetXYZ(array, k, p) ==
    [n \in 1..Len(array) |->
        IF n = 3 * k + 1 THEN Fround(p[1])
        ELSE IF n = 3 * k + 2 THEN Fround(p[2])
        ELSE IF n = 3 * k + 3 THEN Fround(p[3])
        ELSE array[n]]

Count(array, itemSize) == Len(array) \div itemSize

Zeros(n) == [k \in 1..n |-> 0]

\* Object3D.localToWorld with the node's resolved world transform.
LocalToWorld_Skipped(node, p) == p

LocalToWorld(node, p) == VecAdd(MatVec(node.matrixWorld.m, p), node.matrixWorld.t)

\* BufferGeometry.computeBoundingBox over the position attribute.
RECURSIVE ComputeBoundingBox(_, _, _)
ComputeBoundingBox(positions, k, box) ==
    IF k >= Count(positions, 3) THEN box
    ELSE ComputeBoundingBox(positions, k + 1, ExpandByPoint(box, GetXYZ(positions, k)))

-----------------------------------------------------------------------------
(* rewriteUTMTerrainModel *)

\* The for loop of lines 273-286: src is read, dst is written.
RECURSIVE ConvertLoop(_, _, _, _)
ConvertLoop(node, k, src, dst) ==
    IF k >= Count(src, 3) THEN [src |-> src, dst |-> dst]
    ELSE LET pos == LocalToWorld(node, GetXYZ(src, k))
         IN  ConvertLoop(node, k + 1, src, SetXYZ(dst, k, Forward(pos)))

IsSupported_IgnoreIndex(node) == node.hasPosition /\ node.itemSize = 3

IsSupported(node) == node.hasPosition /\ node.itemSize = 3 /\ ~node.index

DebugMaterial == [color |-> "ff0000", wireframe |-> TRUE]

\* The traverse callback applied to the nodes in traversal order.  acc holds
\* the nodes as they are left, the output meshes and the warnings logged.
RECURSIVE Traverse(_, _, _)
Traverse(nodes, k, acc) ==
    IF k > Len(nodes) THEN acc
    ELSE LET child == nodes[k] IN
         IF ~child.isMesh
         THEN Traverse(nodes, k + 1, [acc EXCEPT !.nodes = Append(@, child)])
         ELSE IF IsSupported(child)
         THEN LET conv == ConvertLoop(child, 0, child.array, Zeros(Len(child.array)))
                  mesh == [positions   |-> conv.dst,
                           hasNormals  |-> TRUE,
                           boundingBox |-> ComputeBoundingBox(conv.dst, 0, EmptyBox)]
              IN  Traverse(nodes, k + 1,
                      [acc EXCEPT !.nodes = Append(@, [child EXCEPT !.array = conv.src]),
                                  !.children = Append(@, mesh)])
         ELSE Traverse(nodes, k + 1,
                  [acc EXCEPT !.nodes = Append(@, child), !.warnings = @ + 1])

RewriteUTMTerrainModel(model) ==
    LET out == Traverse(model, 1, [nodes |-> <<>>, children |-> <<>>, warnings |-> 0])
    IN  [model    |-> out.nodes,
         group    |-> [material |-> DebugMaterial, quaternion |-> Identity3,
                       children |-> out.children],
         warnings |-> out.warnings]

-----------------------------------------------------------------------------
(* What the tile server holds.  A Collada scene is the sequence of its     *)
(* nodes in traversal order, each with its resolved world transform.  A    *)
(* position array holds whole items, as the loader builds it.              *)

Transform(m, t) == [m |-> m, t |-> t]

RotZ90 == <<<<0, -1, 0>>, <<1, 0, 0>>, <<0, 0, 1>>>>

GroupNode ==
    [isMesh |-> FALSE, hasPosition |-> FALSE, itemSize |-> 3, index |-> FALSE,
     array |-> <<>>, matrixWorld |-> Transform(Identity3, <<0, 0, 0>>)]

MeshNode(array, mw) ==
    [isMesh |-> TRUE, hasPosition |-> TRUE, itemSize |-> 3, index |-> FALSE,
     array |-> array, matrixWorld |-> mw]

TileOrigin(e, n) == <<FalseEasting + e, n, 0>>

Urls == {"flat", "nested", "mixed", "bare"}

Catalogue(url) ==
    CASE url = "flat" ->
            <<MeshNode(<<0, 0, 1,  4, 0, 2,  0, 4, 3>>,
                       Transform(Identity3, TileOrigin(0, 0)))>>
      [] url = "nested" ->
            <<GroupNode,
              MeshNode(<<0, 0, 0,  2, 0, 1,  0, 2, 5>>,
                       Transform(RotZ90, TileOrigin(8, 0))),
              MeshNode(<<1, 1, 2,  3, 1, 4,  1, 3, 7,  3, 3, 2,  1, 3, 7,  3, 1, 4>>,
                       Transform(Identity3, TileOrigin(8, 8)))>>
      [] url = "mixed" ->
            <<[MeshNode(<<0, 0, 9,  1, 0, 9,  0, 1, 9>>,
                        Transform(Identity3, TileOrigin(0, 16))) EXCEPT !.index = TRUE],
              [MeshNode(<<>>, Transform(Identity3, TileOrigin(0, 16)))
                  EXCEPT !.hasPosition = FALSE],
              MeshNode(<<2, 0, 6,  0, 2, 3,  2, 2, 1>>,
                       Transform(Identity3, TileOrigin(0, 16))),
              [MeshNode(<<0, 0,  1, 0,  0, 1>>,
                        Transform(Identity3, TileOrigin(0, 16))) EXCEPT !.itemSize = 2]>>
      [] OTHER -> <<GroupNode>>

Rotations == {Identity3, EcefToGLRotation}

-----------------------------------------------------------------------------
(* fetchRewriteAndLoadColladaTerrainTiles.  The function runs in segments  *)
(* separated by its await: the call up to the first fetch, and one         *)
(* resumption for each settled fetch.                                      *)

\* A promise that carries no value.
NoValue == [isEmpty |-> TRUE, min |-> <<>>, max |-> <<>>]

Pending == [state |-> "pending", value |-> NoValue]

Resolved(box) == [state |-> "resolved", value |-> box]

Rejected == [state |-> "rejected", value |-> NoValue]

\* Object3D.setRotationFromQuaternion on the rewritten group.
SetRotationFromQuaternion(group, q) == [group EXCEPT !.quaternion = q]

\* Box3.expandByObject: the box of every mesh of the group, carried to world
\* space by the group's world matrix, is united into the box.
ExpandByObject(box, group) ==
    LET F[k \in 0..Len(group.children)] ==
            IF k = 0 THEN box
            ELSE BoxUnion(F[k - 1],
                          BoxApplyMatrix(group.children[k].boundingBox, group.quaternion))
    IN  F[Len(group.children)]

\* The loop condition and the fetch it leads to: the indices whose fetch
\* starts when the loop stands at index k.
FetchesToStart_All(list, k) == IF k = 0 THEN 0..(Len(list) - 1) ELSE {}

FetchesToStart(list, k) == IF k < Len(list) THEN {k} ELSE {}

Event(op, k) == [op |-> op, index |-> k]

StartEvents(S) ==
    LET F[n \in 0..Cardinality(S)] ==
            IF n = 0 THEN <<>>
            ELSE Append(F[n - 1],
                        Event("start", CHOOSE k \in S :
                                  Cardinality({j \in S : j < k}) = n - 1))
    IN  F[Cardinality(S)]

\* From the loop head at index k with running box `box`: fetch and await,
\* or return the box.
LoopHead(k, box) ==
    LET starts == FetchesToStart(urls, k) IN
    /\ i' = k
    /\ bBox' = box
    /\ IF starts # {}
       THEN /\ tilePc' = "await"
            /\ result' = result
       ELSE /\ tilePc' = "done"
            /\ result' = Resolved(box)

\* The segment from the call to the first await.
CallBody ==
    /\ LoopHead(0, EmptyBox)
    /\ inFlight' = FetchesToStart(urls, 0)
    /\ fetchLog' = StartEvents(FetchesToStart(urls, 0))
    /\ UNCHANGED <<urls, rotations, scene, origModels, warnings>>

Call ==
    /\ tilePc = "call"
    /\ CallBody
    /\ UNCHANGED <<areaVars, windowVars, appVars, fnVars>>

OnFetchResolved(k) ==
    /\ tilePc = "await"
    /\ k \in inFlight
    /\ LET rewritten == RewriteUTMTerrainModel(Catalogue(urls[k + 1]))
           adjModel  == SetRotationFromQuaternion(rewritten.group, rotations)
       IN  /\ origModels' = Append(origModels, rewritten.model)
           /\ warnings' = warnings + rewritten.warnings
           /\ scene' = Append(scene, [url |-> urls[k + 1], index |-> k] @@ adjModel)
           /\ LoopHead(i + 1, ExpandByObject(bBox, adjModel))
    /\ inFlight' = (inFlight \ {k}) \cup FetchesToStart(urls, i + 1)
    /\ fetchLog' = Append(fetchLog, Event("ok", k))
                       \o StartEvents(FetchesToStart(urls, i + 1))
    /\ UNCHANGED <<urls, rotations>>
    /\ UNCHANGED <<areaVars, windowVars, appVars, fnVars>>

OnFetchRejected_SkipTile(k) ==
    /\ tilePc = "await"
    /\ k \in inFlight
    /\ LoopHead(i + 1, bBox)
    /\ inFlight' = (inFlight \ {k}) \cup FetchesToStart(urls, i + 1)
    /\ fetchLog' = Append(fetchLog, Event("error", k))
                       \o StartEvents(FetchesToStart(urls, i + 1))
    /\ UNCHANGED <<urls, rotations, scene, origModels, warnings>>
    /\ UNCHANGED <<areaVars, windowVars, appVars, fnVars>>

OnFetchRejected(k) ==
    /\ tilePc = "await"
    /\ k \in inFlight
    /\ tilePc' = "failed"
    /\ result' = Rejected
    /\ inFlight' = inFlight \ {k}
    /\ fetchLog' = Append(fetchLog, Event("error", k))
    /\ UNCHANGED <<urls, rotations, i, bBox, scene, origModels, warnings>>
    /\ UNCHANGED <<areaVars, windowVars, appVars, fnVars>>

-----------------------------------------------------------------------------
(* withinDrawingNDC and calcDrawingArea *)

WithinDrawingNDC_Open(coord) ==
    /\ RLt(RInt(-1), coord.x) /\ RLt(coord.x, RInt(1))
    /\ RLt(RInt(-1), coord.y) /\ RLt(coord.y, RInt(1))

\* Only the x coordinate tested.
WithinDrawingNDC_XOnly(coord) ==
    RLe(RInt(-1), coord.x) /\ RLe(coord.x, RInt(1))

WithinDrawingNDC(coord) ==
    /\ RLe(RInt(-1), coord.x) /\ RLe(coord.x, RInt(1))
    /\ RLe(RInt(-1), coord.y) /\ RLe(coord.y, RInt(1))

\* The branch test reversed.
CalcDrawingArea_Reversed(cameraAspectRatio, width, height) ==
    IF RLt(cameraAspectRatio, RDiv(RInt(width), RInt(height)))
    THEN LET adjHeight == RMul(RInt(width), RDiv(RInt(1), cameraAspectRatio))
             diff == RSub(RInt(height), adjHeight)
         IN  <<RInt(0), RDiv(diff, RInt(2)), RInt(width), adjHeight>>
    ELSE LET adjWidth == RMul(RInt(height), cameraAspectRatio)
             diff == RSub(RInt(width), adjWidth)
         IN  <<RDiv(diff, RInt(2)), RInt(0), adjWidth, RInt(height)>>

\* The whole difference taken as the first margin.
CalcDrawingArea_Uncentred(cameraAspectRatio, width, height) ==
    IF RLt(RDiv(RInt(width), RInt(height)), cameraAspectRatio)
    THEN LET adjHeight == RMul(RInt(width), RDiv(RInt(1), cameraAspectRatio))
             diff == RSub(RInt(height), adjHeight)
         IN  <<RInt(0), diff, RInt(width), adjHeight>>
    ELSE LET adjWidth == RMul(RInt(height), cameraAspectRatio)
             diff == RSub(RInt(width), adjWidth)
         IN  <<diff, RInt(0), adjWidth, RInt(height)>>

\* width and height stand for window.innerWidth and window.innerHeight.
CalcDrawingArea(cameraAspectRatio, width, height) ==
    LET canvasAspectRatio == RDiv(RInt(width), RInt(height)) IN
    IF RLt(canvasAspectRatio, cameraAspectRatio)
    THEN LET adjHeight == RMul(RInt(width), RDiv(RInt(1), cameraAspectRatio))
             diff == RSub(RInt(height), adjHeight)
         IN  <<RInt(0), RDiv(diff, RInt(2)), RInt(width), adjHeight>>
    ELSE LET adjWidth == RMul(RInt(height), cameraAspectRatio)
             diff == RSub(RInt(width), adjWidth)
         IN  <<RDiv(diff, RInt(2)), RInt(0), adjWidth, RInt(height)>>

-----------------------------------------------------------------------------
(* The two functions applied to arguments drawn from bounded sets.         *)

Aspects == {Rat(n, d) : n \in 1..MaxAspect, d \in 1..MaxAspect}

NdcGrid == {Rat(k, NdcScale) : k \in (-(NdcScale + 1))..(NdcScale + 1)}

ApplyCalcDrawingArea ==
    /\ areaPc = "args"
    /\ drawingArea' = CalcDrawingArea(argAspect, innerWidth, innerHeight)
    /\ areaPc' = "area"
    /\ UNCHANGED <<argAspect, argCoord, within>>
    /\ UNCHANGED <<tileVars, windowVars, appVars, fnVars>>

ApplyWithinDrawingNDC ==
    /\ areaPc = "area"
    /\ within' = WithinDrawingNDC(argCoord)
    /\ areaPc' = "done"
    /\ UNCHANGED <<argAspect, argCoord, drawingArea>>
    /\ UNCHANGED <<tileVars, windowVars, appVars, fnVars>>

-----------------------------------------------------------------------------
(* Angles.  A radian value is held as a count of quarter turns (pi/2); the *)
(* metadata gives yaw, pitch and roll in degrees, here multiples of 90.    *)
(* A field of view is named by its degrees, rounded, and is one of the     *)
(* angles 2*atan(t) whose half-angle tangent t is rational.                *)

Cos(q) == CASE q % 4 = 0 -> 1 [] q % 4 = 1 -> 0 [] q % 4 = 2 -> -1 [] OTHER -> 0

Sin(q) == CASE q % 4 = 0 -> 0 [] q % 4 = 1 -> 1 [] q % 4 = 2 -> 0 [] OTHER -> -1

DegToRad(deg) == deg \div 90

\* Math.tan(degToRad(fov) / 2.0)
TanHalfFov(fov) ==
    CASE fov = 37 -> Rat(1, 3)
      [] fov = 53 -> Rat(1, 2)
      [] fov = 90 -> Rat(1, 1)
      [] fov = 127 -> Rat(2, 1)

\* The quotient taken the other way round.
AspectRatioFromFov_Inverted(hFov, vFov) ==
    LET width  == TanHalfFov(hFov)
        height == TanHalfFov(vFov)
    IN  RDiv(height, width)

AspectRatioFromFov(hFov, vFov) ==
    LET width  == TanHalfFov(hFov)
        height == TanHalfFov(vFov)
    IN  RDiv(width, height)

MakeRotationZ(q) == <<<<Cos(q), -Sin(q), 0>>, <<Sin(q), Cos(q), 0>>, <<0, 0, 1>>>>

MakeRotationY(q) == <<<<Cos(q), 0, Sin(q)>>, <<0, 1, 0>>, <<-Sin(q), 0, Cos(q)>>>>

MakeRotationX(q) == <<<<1, 0, 0>>, <<0, Cos(q), -Sin(q)>>, <<0, Sin(q), Cos(q)>>>>

\* The three rotations composed about the fixed axes instead.
MatrixYPR_Extrinsic(yaw, pitch, roll) ==
    MatMul(MakeRotationX(roll), MatMul(MakeRotationY(pitch), MakeRotationZ(yaw)))

MatrixYPR(yaw, pitch, roll) ==
    LET sy == Sin(yaw)
        cy == Cos(yaw)
        sp == Sin(pitch)
        cp == Cos(pitch)
        sr == Sin(roll)
        cr == Cos(roll)
    IN  <<<<cy * cp, cy * sp * sr - sy * cr, cy * sp * cr + sy * sr>>,
          <<sy * cp, sy * sp * sr + cy * cr, sy * sp * cr - cy * sr>>,
          <<-sp, cp * sr, cp * cr>>>>

\* The flag ignored.
CameraRotationYPR_AlwaysEcef(yaw, pitch, roll, toEcef) ==
    MatMul(MatrixYPR(yaw, pitch, roll), MatMul(MakeRotationZ(1), MakeRotationX(-1)))

CameraRotationYPR(yaw, pitch, roll, toEcef) ==
    IF toEcef
    THEN LET permute == MatMul(MakeRotationZ(1), MakeRotationX(-1))
         IN  MatMul(MatrixYPR(yaw, pitch, roll), permute)
    ELSE MatrixYPR(yaw, pitch, roll)

-----------------------------------------------------------------------------
(* The camera.  matrixWorld and projectionMatrix are held as the values    *)
(* they were last computed from.                                           *)

CreatePerspectiveCamera ==
    [position |-> <<0, 0, 0>>, rotation |-> Identity3,
     fov |-> 45, aspect |-> RInt(1),
     matrixWorld |-> [position |-> <<0, 0, 0>>, rotation |-> Identity3],
     projectionMatrix |-> [fov |-> 45, aspect |-> RInt(1)]]

UpdateMatrixWorld(cam) ==
    [cam EXCEPT !.matrixWorld = [position |-> cam.position, rotation |-> cam.rotation]]

UpdateProjectionMatrix(cam) ==
    [cam EXCEPT !.projectionMatrix = [fov |-> cam.fov, aspect |-> cam.aspect]]

SetCameraMetadata_NoProjectionUpdate(cam, metadata, toEcef) ==
    LET camRot == CameraRotationYPR(DegToRad(metadata.yaw), DegToRad(metadata.pitch),
                                    DegToRad(metadata.roll), toEcef)
    IN  UpdateMatrixWorld(
            [cam EXCEPT !.position = <<metadata.x, metadata.y, metadata.z>>,
                        !.rotation = camRot,
                        !.fov = metadata.vfov,
                        !.aspect = AspectRatioFromFov(metadata.hfov, metadata.vfov)])

SetCameraMetadata(cam, metadata, toEcef) ==
    LET camRot == CameraRotationYPR(DegToRad(metadata.yaw), DegToRad(metadata.pitch),
                                    DegToRad(metadata.roll), toEcef)
    IN  UpdateProjectionMatrix(UpdateMatrixWorld(
            [cam EXCEPT !.position = <<metadata.x, metadata.y, metadata.z>>,
                        !.rotation = camRot,
                        !.fov = metadata.vfov,
                        !.aspect = AspectRatioFromFov(metadata.hfov, metadata.vfov)]))

-----------------------------------------------------------------------------
(* The renderer (Three.WebGLRenderer): setSize resets the viewport to the  *)
(* whole canvas, and setPixelRatio sets the size again.                    *)

Rect(x, y, w, h) == <<x, y, w, h>>

NewWebGLRenderer ==
    [created |-> FALSE, scissorTest |-> FALSE, pixelRatio |-> 1,
     size |-> <<300, 150>>,
     viewport |-> Rect(RInt(0), RInt(0), RInt(300), RInt(150)),
     scissor |-> Rect(RInt(0), RInt(0), RInt(300), RInt(150))]

SetSize(r, width, height) ==
    [r EXCEPT !.size = <<width, height>>,
              !.viewport = Rect(RInt(0), RInt(0), RInt(width), RInt(height))]

SetPixelRatio(r, value) == SetSize([r EXCEPT !.pixelRatio = value], r.size[1], r.size[2])

SetViewport(r, area) == [r EXCEPT !.viewport = area]

SetScissor(r, area) == [r EXCEPT !.scissor = area]

\* The size set after the viewport and the scissor.
SetDrawingArea_SizeLast(r, cameraAspectRatio, width, height, pixelRatio) ==
    LET drawingArea_ == CalcDrawingArea(cameraAspectRatio, width, height)
    IN  SetSize(SetScissor(SetViewport(SetPixelRatio(r, pixelRatio), drawingArea_),
                           drawingArea_),
                width, height)

\* width, height and pixelRatio stand for window.innerWidth,
\* window.innerHeight and window.devicePixelRatio.
SetDrawingArea(r, cameraAspectRatio, width, height, pixelRatio) ==
    LET sized        == SetSize(SetPixelRatio(r, pixelRatio), width, height)
        drawingArea_ == CalcDrawingArea(cameraAspectRatio, width, height)
    IN  SetScissor(SetViewport(sized, drawingArea_), drawingArea_)

CreateRenderer(cameraAspectRatio, width, height, pixelRatio) ==
    SetDrawingArea([NewWebGLRenderer EXCEPT !.created = TRUE, !.scissorTest = TRUE],
                   cameraAspectRatio, width, height, pixelRatio)

-----------------------------------------------------------------------------
(* simplestTerrainDemo (main.ts:36-247).  What the server holds under      *)
(* content/demo1 is not part of the repository: item n has the metadata    *)
(* MetadataAt(n) and the image n, and the four tiles are those of          *)
(* AppTileUrls.                                                            *)

minItem == 0

maxItem == 8

HFovs == <<90, 53, 127, 37, 90, 127, 53, 90, 37>>

VFovs == <<53, 37, 90, 37, 90, 53, 53, 37, 90>>

MetadataAt(n) ==
    [x |-> 100 + 10 * n, y |-> 200 - n, z |-> 50 + n,
     yaw |-> 90 * (n % 4), pitch |-> -90 * ((n \div 3) % 2), roll |-> 180 * ((n \div 2) % 2),
     hfov |-> HFovs[n + 1], vfov |-> VFovs[n + 1]]

AppTileUrls == <<"flat", "nested", "mixed", "bare">>

AppWindowSizes == {<<16, 9>>, <<3, 4>>, <<2, 1>>}

DevicePixelRatios == {1, 2}

NoPointer == <<>>

NoConverter == [made |-> FALSE, zone |-> 0, long0 |-> 0]

NoOverlay == [created |-> FALSE, image |-> -1, visible |-> FALSE]

Remove(seq, h) == SubSeq(seq, 1, h - 1) \o SubSeq(seq, h + 1, Len(seq))

pickVars == <<mousePos, mouseClicked, showNormal, showCoord, elfs, coordText,
              arrowVisible, pointer>>

\* The catch block: every failure of the start-up ends there.
Broke(fetch) ==
    /\ appPc' = "broke"
    /\ failures' = failures \cup {[during |-> "startup", fetch |-> fetch]}
    /\ bodyText' = Append(bodyText, "Oops. Things just broke")
    /\ UNCHANGED <<camera, renderer, overlay, spotLight, currentItem, handlers,
                   presses, pickVars, rendered>>
    /\ UNCHANGED <<areaVars, windowVars, fnVars>>

\* await fetchCollada(elf) settles.
StartupElfLoaded ==
    /\ appPc = "loadElf"
    /\ appPc' = "loadMeta"
    /\ UNCHANGED <<camera, renderer, overlay, spotLight, currentItem, handlers,
                   presses, pickVars, rendered>>
    /\ UNCHANGED <<tileVars, areaVars, windowVars, fnVars, logVars>>

StartupElfFailed ==
    /\ appPc = "loadElf"
    /\ Broke("collada")
    /\ UNCHANGED tileVars

\* await fetchJSON(metadataUrl(0)) settles: the camera takes the pose, the
\* renderer is created and the tile loader is called.
StartupMetadataLoaded ==
    /\ appPc = "loadMeta"
    /\ LET cam == SetCameraMetadata(camera, MetadataAt(0), TRUE) IN
       /\ camera' = cam
       /\ renderer' = CreateRenderer(cam.aspect, innerWidth, innerHeight,
                                     devicePixelRatio)
    /\ CallBody
    /\ appPc' = "loadTiles"
    /\ UNCHANGED <<overlay, spotLight, currentItem, handlers, presses, pickVars,
                   rendered>>
    /\ UNCHANGED <<areaVars, windowVars, fnVars, logVars>>

StartupMetadataFailed ==
    /\ appPc = "loadMeta"
    /\ Broke("json")
    /\ UNCHANGED tileVars

\* await fetchRewriteAndLoadColladaTerrainTiles settles.
StartupTilesLoaded ==
    /\ appPc = "loadTiles"
    /\ tilePc = "done"
    /\ appPc' = "loadImage"
    /\ UNCHANGED <<camera, renderer, overlay, spotLight, currentItem, handlers,
                   presses, pickVars, rendered>>
    /\ UNCHANGED <<tileVars, areaVars, windowVars, fnVars, logVars>>

StartupTilesFailed ==
    /\ appPc = "loadTiles"
    /\ tilePc = "failed"
    /\ Broke("tiles")
    /\ UNCHANGED tileVars

\* await fetchImage(imageUrl(0)) settles: the overlay, the handlers, the
\* lights and the animation loop are set up.
StartupImageLoaded ==
    /\ appPc = "loadImage"
    /\ overlay' = [created |-> TRUE, image |-> 0, visible |-> TRUE]
    /\ spotLight' = camera.position
    /\ appPc' = "running"
    /\ UNCHANGED <<camera, renderer, currentItem, handlers, presses, pickVars,
                   rendered>>
    /\ UNCHANGED <<tileVars, areaVars, windowVars, fnVars, logVars>>

StartupImageFailed ==
    /\ appPc = "loadImage"
    /\ Broke("image")
    /\ UNCHANGED tileVars

\* The browser resizes the window; window.onresize runs once it is set.
Resize(size, pixelRatio) ==
    /\ appPc \notin {"off", "broke"}
    /\ innerWidth' = size[1]
    /\ innerHeight' = size[2]
    /\ devicePixelRatio' = pixelRatio
    /\ renderer' = IF appPc = "running"
                   THEN SetDrawingArea(renderer, camera.aspect, size[1], size[2],
                                       pixelRatio)
                   ELSE renderer
    /\ UNCHANGED <<appPc, camera, overlay, spotLight, currentItem, handlers,
                   presses, pickVars, rendered>>
    /\ UNCHANGED <<tileVars, areaVars, fnVars, logVars>>

\* window.onkeydown, ArrowLeft / ArrowRight, up to its first await.
KeyArrow(code) ==
    /\ appPc = "running"
    /\ presses < MaxPresses
    /\ LET item == IF code = "ArrowLeft"
                   THEN Max2(currentItem - 1, minItem)
                   ELSE Min2(currentItem + 1, maxItem)
       IN  /\ currentItem' = item
           /\ handlers' = Append(handlers, [item |-> item, stage |-> "metadata"])
    /\ presses' = presses + 1
    /\ UNCHANGED <<appPc, camera, renderer, overlay, spotLight, pickVars, rendered>>
    /\ UNCHANGED <<tileVars, areaVars, windowVars, fnVars, logVars>>

\* A handler's await fetchJSON settles: from there to its await fetchImage.
OnMetadata(h) ==
    /\ handlers[h].stage = "metadata"
    /\ LET cam == SetCameraMetadata(camera, MetadataAt(handlers[h].item), TRUE) IN
       /\ camera' = cam
       /\ renderer' = SetDrawingArea(renderer, cam.aspect, innerWidth, innerHeight,
                                     devicePixelRatio)
    /\ handlers' = [handlers EXCEPT ![h].stage = "image"]
    /\ UNCHANGED <<appPc, overlay, spotLight, currentItem, presses, pickVars,
                   rendered>>
    /\ UNCHANGED <<tileVars, areaVars, windowVars, fnVars, logVars>>

\* A handler's await fetchImage settles: from there to the handler's end.
OnImage(h) ==
    /\ handlers[h].stage = "image"
    /\ overlay' = [overlay EXCEPT !.image = handlers[h].item]
    /\ spotLight' = camera.position
    /\ handlers' = Remove(handlers, h)
    /\ UNCHANGED <<appPc, camera, renderer, currentItem, presses, pickVars,
                   rendered>>
    /\ UNCHANGED <<tileVars, areaVars, windowVars, fnVars, logVars>>

\* Either await of a handler rejects: the handler ends there.
OnFetchFailed(h) ==
    /\ handlers' = Remove(handlers, h)
    /\ failures' = failures \cup {[during |-> "keydown", fetch |-> handlers[h].stage]}
    /\ UNCHANGED <<appPc, camera, renderer, overlay, spotLight, currentItem,
                   presses, pickVars, rendered, bodyText>>
    /\ UNCHANGED <<tileVars, areaVars, windowVars, fnVars>>

\* The frame without the reset of mouseClicked.
Frame_ClickKept(hit) ==
    /\ appPc = "running"
    /\ LET asked  == mouseClicked \/ showCoord \/ showNormal
           inside == WithinDrawingNDC(mousePos)
           found  == asked /\ inside /\ hit
       IN  /\ elfs' = IF found /\ mouseClicked THEN elfs + 1 ELSE elfs
           /\ coordText' = IF found /\ showCoord THEN "point" ELSE ""
           /\ arrowVisible' = (found /\ showNormal)
           /\ rendered' = [drawn |-> TRUE, camera |-> UpdateMatrixWorld(camera),
                           cast |-> IF ~asked THEN "idle"
                                    ELSE IF ~inside THEN "outside"
                                    ELSE IF hit THEN "hit" ELSE "miss"]
    /\ UNCHANGED mouseClicked
    /\ camera' = UpdateMatrixWorld(camera)
    /\ UNCHANGED <<appPc, renderer, overlay, spotLight, currentItem, handlers,
                   presses, mousePos, showNormal, showCoord, pointer>>
    /\ UNCHANGED <<tileVars, areaVars, windowVars, fnVars, logVars>>

\* The animation loop callback.  Whether the ray hits a face depends on the
\* scene and is left open.
Frame(hit) ==
    /\ appPc = "running"
    /\ LET asked  == mouseClicked \/ showCoord \/ showNormal
           inside == WithinDrawingNDC(mousePos)
           found  == asked /\ inside /\ hit
       IN  /\ elfs' = IF found /\ mouseClicked THEN elfs + 1 ELSE elfs
           /\ coordText' = IF found /\ showCoord THEN "point" ELSE ""
           /\ arrowVisible' = (found /\ showNormal)
           /\ rendered' = [drawn |-> TRUE, camera |-> UpdateMatrixWorld(camera),
                           cast |-> IF ~asked THEN "idle"
                                    ELSE IF ~inside THEN "outside"
                                    ELSE IF hit THEN "hit" ELSE "miss"]
    /\ mouseClicked' = FALSE
    /\ camera' = UpdateMatrixWorld(camera)
    /\ UNCHANGED <<appPc, renderer, overlay, spotLight, currentItem, handlers,
                   presses, mousePos, showNormal, showCoord, pointer>>
    /\ UNCHANGED <<tileVars, areaVars, windowVars, fnVars, logVars>>

\* window.onmousemove: the pointer position as NDC of the drawing area.
MouseMove(clientX, clientY) ==
    /\ appPc = "running"
    /\ LET drawingArea_ == CalcDrawingArea(camera.aspect, innerWidth, innerHeight)
           u == RSub(RDiv(RInt(clientX), drawingArea_[3]),
                     RDiv(drawingArea_[1], drawingArea_[3]))
           v == RSub(RDiv(RInt(clientY), drawingArea_[4]),
                     RDiv(drawingArea_[2], drawingArea_[4]))
       IN  mousePos' = [x |-> RSub(RMul(u, RInt(2)), RInt(1)),
                        y |-> RAdd(RMul(RNeg(v), RInt(2)), RInt(1))]
    /\ pointer' = <<clientX, clientY>>
    /\ UNCHANGED <<appPc, camera, renderer, overlay, spotLight, currentItem,
                   handlers, presses, mouseClicked, showNormal, showCoord, elfs,
                   coordText, arrowVisible, rendered>>
    /\ UNCHANGED <<tileVars, areaVars, windowVars, fnVars, logVars>>

\* window.onmousedown.  Clicks are taken while fewer than MaxElfs elf models
\* stand in the scene.
MouseDown(button) ==
    /\ appPc = "running"
    /\ elfs < MaxElfs
    /\ mouseClicked' = (IF button = 1 THEN TRUE ELSE mouseClicked)
    /\ UNCHANGED <<appPc, camera, renderer, overlay, spotLight, currentItem,
                   handlers, presses, mousePos, showNormal, showCoord, elfs,
                   coordText, arrowVisible, rendered, pointer>>
    /\ UNCHANGED <<tileVars, areaVars, windowVars, fnVars, logVars>>

\* window.onkeydown, KeyN.
KeyN ==
    /\ appPc = "running"
    /\ showNormal' = ~showNormal
    /\ UNCHANGED <<appPc, camera, renderer, overlay, spotLight, currentItem,
                   handlers, presses, mousePos, mouseClicked, showCoord, elfs,
                   coordText, arrowVisible, rendered, pointer>>
    /\ UNCHANGED <<tileVars, areaVars, windowVars, fnVars, logVars>>

\* window.onkeydown, KeyT.
KeyT ==
    /\ appPc = "running"
    /\ showCoord' = ~showCoord
    /\ UNCHANGED <<appPc, camera, renderer, overlay, spotLight, currentItem,
                   handlers, presses, mousePos, mouseClicked, showNormal, elfs,
                   coordText, arrowVisible, rendered, pointer>>
    /\ UNCHANGED <<tileVars, areaVars, windowVars, fnVars, logVars>>

\* window.onkeydown, Escape: the elf models are taken out of the scene.
KeyEscape ==
    /\ appPc = "running"
    /\ elfs' = 0
    /\ UNCHANGED <<appPc, camera, renderer, overlay, spotLight, currentItem,
                   handlers, presses, mousePos, mouseClicked, showNormal,
                   showCoord, coordText, arrowVisible, rendered, pointer>>
    /\ UNCHANGED <<tileVars, areaVars, windowVars, fnVars, logVars>>

\* mat.wireframe = !mat.wireframe, once for each of the n child meshes that
\* refer to the material.
RECURSIVE ToggleForEachChild(_, _)
ToggleForEachChild(material, n) ==
    IF n = 0 THEN material
    ELSE ToggleForEachChild([material EXCEPT !.wireframe = ~@], n - 1)

\* window.onkeydown, KeyW.  The terrain tiles are the groups the loader added
\* to the scene; all children of a group are meshes with the group's one
\* material.
KeyW ==
    /\ appPc = "running"
    /\ scene' = [t \in 1..Len(scene) |->
                    [scene[t] EXCEPT !.material =
                        ToggleForEachChild(@, Len(scene[t].children))]]
    /\ UNCHANGED <<urls, rotations, i, bBox, tilePc, inFlight, fetchLog,
                   origModels, warnings, result>>
    /\ UNCHANGED <<areaVars, windowVars, appVars, fnVars>>

\* The pointer positions a mousemove event reports, for a window of the
\* given size: its corners and the middle of its left and right edge.
PointerXs(width) == {0, width}

PointerYs(height) == {0, height \div 2, height}

-----------------------------------------------------------------------------
(* createUtmToEcefConverter.  The function hands the zone to proj4 inside  *)
(* a definition string and checks nothing itself; proj4's utm projection   *)
(* takes any zone number and places the central meridian at                *)
(* 6 * |zone| - 183 degrees.                                               *)

Proj4Utm(zoneNumber) ==
    [made |-> TRUE, zone |-> zoneNumber, long0 |-> 6 * Abs(zoneNumber) - 183]

CreateUtmToEcefConverter(zoneNumber) == Proj4Utm(zoneNumber)

-----------------------------------------------------------------------------
(* matrixYPR, cameraRotationYPR and createUtmToEcefConverter applied to    *)
(* drawn arguments.                                                        *)

Turns == (-MaxTurns)..MaxTurns

Zones == (1 - ZoneMargin)..(60 + ZoneMargin)

ApplyMatrixYPR ==
    /\ fnPc = "angles"
    /\ ypr' = MatrixYPR(argYaw, argPitch, argRoll)
    /\ fnPc' = "ypr"
    /\ UNCHANGED <<argYaw, argPitch, argRoll, argToEcef, cameraRot, argZone, converter>>
    /\ UNCHANGED <<tileVars, areaVars, windowVars, appVars>>

ApplyCameraRotationYPR ==
    /\ fnPc = "ypr"
    /\ cameraRot' = CameraRotationYPR(argYaw, argPitch, argRoll, argToEcef)
    /\ fnPc' = "done"
    /\ UNCHANGED <<argYaw, argPitch, argRoll, argToEcef, ypr, argZone, converter>>
    /\ UNCHANGED <<tileVars, areaVars, windowVars, appVars>>

ApplyCreateUtmToEcefConverter ==
    /\ fnPc = "zone"
    /\ converter' = CreateUtmToEcefConverter(argZone)
    /\ fnPc' = "made"
    /\ UNCHANGED <<argYaw, argPitch, argRoll, argToEcef, ypr, cameraRot, argZone>>
    /\ UNCHANGED <<tileVars, areaVars, windowVars, appVars>>

-----------------------------------------------------------------------------
(* Specifications *)

TilesIdle ==
    /\ urls = <<>>
    /\ rotations = Identity3
    /\ i = 0
    /\ bBox = EmptyBox
    /\ scene = <<>>
    /\ tilePc = "idle"
    /\ inFlight = {}
    /\ fetchLog = <<>>
    /\ origModels = <<>>
    /\ warnings = 0
    /\ result = Pending

AreaIdle ==
    /\ argAspect = [n |-> 1, d |-> 1]
    /\ argCoord = [x |-> [n |-> 0, d |-> 1], y |-> [n |-> 0, d |-> 1]]
    /\ drawingArea = <<>>
    /\ within = FALSE
    /\ areaPc = "idle"

WindowIdle ==
    /\ innerWidth = 1
    /\ innerHeight = 1
    /\ devicePixelRatio = 1

FnIdle ==
    /\ argYaw = 0
    /\ argPitch = 0
    /\ argRoll = 0
    /\ argToEcef = FALSE
    /\ ypr = Identity3
    /\ cameraRot = Identity3
    /\ argZone = 1
    /\ converter = NoConverter
    /\ fnPc = "idle"

AppIdle ==
    /\ appPc = "off"
    /\ camera = CreatePerspectiveCamera
    /\ renderer = NewWebGLRenderer
    /\ overlay = NoOverlay
    /\ spotLight = <<0, 0, 0>>
    /\ currentItem = 0
    /\ handlers = <<>>
    /\ presses = 0
    /\ mousePos = [x |-> RInt(0), y |-> RInt(0)]
    /\ mouseClicked = FALSE
    /\ showNormal = FALSE
    /\ showCoord = FALSE
    /\ elfs = 0
    /\ coordText = ""
    /\ arrowVisible = FALSE
    /\ rendered = [drawn |-> FALSE, camera |-> CreatePerspectiveCamera, cast |-> "idle"]
    /\ pointer = NoPointer
    /\ failures = {}
    /\ bodyText = <<>>

InitTiles ==
    /\ urls \in SeqsUpTo(Urls, MaxUrls)
    /\ rotations \in Rotations
    /\ i = 0
    /\ bBox = EmptyBox
    /\ scene = <<>>
    /\ tilePc = "call"
    /\ inFlight = {}
    /\ fetchLog = <<>>
    /\ origModels = <<>>
    /\ warnings = 0
    /\ result = Pending
    /\ AreaIdle
    /\ FnIdle
    /\ WindowIdle
    /\ AppIdle
    /\ FnIdle

NextTiles ==
    \/ Call
    \/ \E k \in inFlight : OnFetchResolved(k)
    \/ \E k \in inFlight : OnFetchRejected(k)

SpecTiles == InitTiles /\ [][NextTiles]_vars

InitArea ==
    /\ argAspect \in Aspects
    /\ argCoord \in [x : NdcGrid, y : NdcGrid]
    /\ innerWidth \in 1..MaxWin
    /\ innerHeight \in 1..MaxWin
    /\ devicePixelRatio = 1
    /\ drawingArea = <<>>
    /\ within = FALSE
    /\ areaPc = "args"
    /\ TilesIdle
    /\ AppIdle
    /\ FnIdle

NextArea ==
    \/ ApplyCalcDrawingArea
    \/ ApplyWithinDrawingNDC

SpecArea == InitArea /\ [][NextArea]_vars

InitRot ==
    /\ argYaw \in Turns
    /\ argPitch \in Turns
    /\ argRoll \in Turns
    /\ argToEcef \in BOOLEAN
    /\ ypr = Identity3
    /\ cameraRot = Identity3
    /\ argZone = 1
    /\ converter = NoConverter
    /\ fnPc = "angles"
    /\ TilesIdle
    /\ AreaIdle
    /\ WindowIdle
    /\ AppIdle

NextRot ==
    \/ ApplyMatrixYPR
    \/ ApplyCameraRotationYPR

SpecRot == InitRot /\ [][NextRot]_vars

InitZone ==
    /\ argZone \in Zones
    /\ converter = NoConverter
    /\ argYaw = 0
    /\ argPitch = 0
    /\ argRoll = 0
    /\ argToEcef = FALSE
    /\ ypr = Identity3
    /\ cameraRot = Identity3
    /\ fnPc = "zone"
    /\ TilesIdle
    /\ AreaIdle
    /\ WindowIdle
    /\ AppIdle

NextZone == ApplyCreateUtmToEcefConverter

SpecZone == InitZone /\ [][NextZone]_vars

\* simplestTerrainDemo up to its first await.
InitApp ==
    /\ appPc = "loadElf"
    /\ camera = CreatePerspectiveCamera
    /\ renderer = NewWebGLRenderer
    /\ overlay = NoOverlay
    /\ spotLight = <<0, 0, 0>>
    /\ currentItem = 0
    /\ handlers = <<>>
    /\ presses = 0
    /\ mousePos = [x |-> RInt(0), y |-> RInt(0)]
    /\ mouseClicked = FALSE
    /\ showNormal = FALSE
    /\ showCoord = FALSE
    /\ elfs = 0
    /\ coordText = ""
    /\ arrowVisible = FALSE
    /\ rendered = [drawn |-> FALSE, camera |-> CreatePerspectiveCamera, cast |-> "idle"]
    /\ pointer = NoPointer
    /\ failures = {}
    /\ bodyText = <<>>
    /\ \E size \in AppWindowSizes :
          /\ innerWidth = size[1]
          /\ innerHeight = size[2]
    /\ devicePixelRatio \in DevicePixelRatios
    /\ urls = AppTileUrls
    /\ rotations = Identity3
    /\ i = 0
    /\ bBox = EmptyBox
    /\ scene = <<>>
    /\ tilePc = "idle"
    /\ inFlight = {}
    /\ fetchLog = <<>>
    /\ origModels = <<>>
    /\ warnings = 0
    /\ result = Pending
    /\ AreaIdle
    /\ FnIdle

NextApp ==
    \/ StartupElfLoaded
    \/ StartupElfFailed
    \/ StartupMetadataLoaded
    \/ StartupMetadataFailed
    \/ \E k \in inFlight : OnFetchResolved(k)
    \/ \E k \in inFlight : OnFetchRejected(k)
    \/ StartupTilesLoaded
    \/ StartupTilesFailed
    \/ StartupImageLoaded
    \/ StartupImageFailed
    \/ \E size \in AppWindowSizes, pixelRatio \in DevicePixelRatios :
          Resize(size, pixelRatio)
    \/ \E code \in {"ArrowLeft", "ArrowRight"} : KeyArrow(code)
    \/ \E h \in 1..Len(handlers) : OnMetadata(h)
    \/ \E h \in 1..Len(handlers) : OnImage(h)
    \/ \E h \in 1..Len(handlers) : OnFetchFailed(h)
    \/ \E hit \in BOOLEAN : Frame(hit)

SpecApp == InitApp /\ [][NextApp]_vars

\* The application with a server that answers every fetch, a fixed device
\* pixel ratio and no arrow keys: start-up, then pointer, toggle keys,
\* resizes and frames.
InitPick ==
    /\ InitApp
    /\ devicePixelRatio = 1

NextPick ==
    \/ StartupElfLoaded
    \/ StartupMetadataLoaded
    \/ \E k \in inFlight : OnFetchResolved(k)
    \/ StartupTilesLoaded
    \/ StartupImageLoaded
    \/ \E size \in AppWindowSizes : Resize(size, devicePixelRatio)
    \/ \E clientX \in PointerXs(innerWidth), clientY \in PointerYs(innerHeight) :
          MouseMove(clientX, clientY)
    \/ \E button \in {0, 1} : MouseDown(button)
    \/ KeyN
    \/ KeyT
    \/ KeyEscape
    \/ KeyW
    \/ \E hit \in BOOLEAN : Frame(hit)

SpecPick == InitPick /\ [][NextPick]_vars

-----------------------------------------------------------------------------
(* Claims about the tile loader and the rewriter, under SpecTiles.         *)

SetMin(S) == CHOOSE x \in S : \A y \in S : x <= y

SetMax(S) == CHOOSE x \in S : \A y \in S : x >= y

BoxOfPointSet(S) ==
    IF S = {} THEN EmptyBox
    ELSE [isEmpty |-> FALSE,
          min |-> [k \in 1..3 |-> SetMin({p[k] : p \in S})],
          max |-> [k \in 1..3 |-> SetMax({p[k] : p \in S})]]

Vertices(positions) == {GetXYZ(positions, k) : k \in 0..(Len(positions) \div 3 - 1)}

\* The bounding box of one tile of the scene, taken after its rotation.
TileBox(tile) ==
    BoxOfPointSet(UNION {{MatVec(tile.quaternion, v) : v \in Vertices(tile.children[c].positions)}
                            : c \in 1..Len(tile.children)})

UnionOfTileBoxes(tiles) ==
    BoxOfPointSet(UNION {IF TileBox(tiles[j]).isEmpty THEN {}
                         ELSE {TileBox(tiles[j]).min, TileBox(tiles[j]).max}
                            : j \in 1..Len(tiles)})

BoxContains(outer, inner) ==
    inner.isEmpty \/
    (~outer.isEmpty /\ \A k \in 1..3 :
        outer.min[k] <= inner.min[k] /\ inner.max[k] <= outer.max[k])

StartsIn(log) == {n \in 1..Len(log) : log[n].op = "start"}

\* C1: at most one tile fetch is in flight at any time; the fetch of
\* urls[k+1] starts only after urls[k] was fetched, rewritten, rotated by the
\* post rotation and united into the running box; the tiles are added in the
\* order of the input.
C1_SequentialInOrder ==
    /\ Cardinality(inFlight) <= 1
    /\ \A n \in StartsIn(fetchLog) :
          /\ fetchLog[n].index = Cardinality({m \in StartsIn(fetchLog) : m < n})
          /\ Len(scene) >= fetchLog[n].index
    /\ \A k \in inFlight : Len(scene) = k
    /\ \A j \in 1..Len(scene) :
          /\ scene[j].index = j - 1
          /\ scene[j].url = urls[j]
          /\ scene[j].quaternion = rotations
          /\ BoxContains(bBox, TileBox(scene[j]))

C1_Witness ==
    /\ inFlight = {2}
    /\ Len(scene) = 2
    /\ scene[1].url # scene[2].url
    /\ rotations # Identity3

\* C2: when the fetch of urls[k] fails the call fails: its promise rejects
\* and carries no box, and no url after urls[k] is ever fetched.
C2_FailFast ==
    \A n \in 1..Len(fetchLog) :
        fetchLog[n].op = "error" =>
            /\ n = Len(fetchLog)
            /\ tilePc = "failed"
            /\ result = Rejected
            /\ inFlight = {}
            /\ \A m \in StartsIn(fetchLog) : fetchLog[m].index <= fetchLog[n].index

C2_Witness ==
    /\ tilePc = "failed"
    /\ Len(urls) = 3
    /\ Len(scene) = 1
    /\ fetchLog[Len(fetchLog)] = Event("error", 1)

Unsupported(node) ==
    node.isMesh /\ (node.index \/ ~node.hasPosition \/ node.itemSize # 3)

UnsupportedNodes(model) == SelectSeq(model, Unsupported)

SupportedMesh(node) == node.isMesh /\ ~Unsupported(node)

SupportedNodes(model) == SelectSeq(model, SupportedMesh)

RECURSIVE SumWarnings(_, _)
SumWarnings(tiles, j) ==
    IF j = 0 THEN 0
    ELSE SumWarnings(tiles, j - 1) + Len(UnsupportedNodes(Catalogue(tiles[j].url)))

\* C4: a mesh that is indexed, has no position attribute or has positions
\* of an item size other than three yields no output mesh and one warning;
\* the other meshes of the model are still rewritten, and the tile load goes
\* on.
C4_UnsupportedSkipped ==
    /\ \A j \in 1..Len(scene) :
          LET kept == SupportedNodes(Catalogue(scene[j].url)) IN
          /\ Len(scene[j].children) = Len(kept)
          /\ \A c \in 1..Len(kept) :
                Len(scene[j].children[c].positions) = Len(kept[c].array)
    /\ warnings = SumWarnings(scene, Len(scene))
    /\ tilePc = "failed" => fetchLog[Len(fetchLog)].op = "error"
    /\ tilePc \in {"await", "done"} => i = Len(scene)

C4_Witness ==
    /\ Len(scene) = 2
    /\ scene[1].url = "mixed"
    /\ Len(scene[1].children) = 1
    /\ warnings = 3
    /\ scene[2].url = "flat"
    /\ tilePc = "await"

\* The world position of a vertex of a source mesh.
WorldOf(node, p) ==
    <<node.matrixWorld.m[1][1] * p[1] + node.matrixWorld.m[1][2] * p[2]
        + node.matrixWorld.m[1][3] * p[3] + node.matrixWorld.t[1],
      node.matrixWorld.m[2][1] * p[1] + node.matrixWorld.m[2][2] * p[2]
        + node.matrixWorld.m[2][3] * p[3] + node.matrixWorld.t[2],
      node.matrixWorld.m[3][1] * p[1] + node.matrixWorld.m[3][2] * p[2]
        + node.matrixWorld.m[3][3] * p[3] + node.matrixWorld.t[3]>>

FroundVec(p) == <<Fround(p[1]), Fround(p[2]), Fround(p[3])>>

\* Every output mesh against its source mesh, vertex by vertex: Stored(p) is
\* what the buffer is said to hold for the converted position p.
RewrittenAs(Stored(_)) ==
    \A j \in 1..Len(scene) :
        LET kept == SupportedNodes(Catalogue(scene[j].url)) IN
        /\ Len(scene[j].children) = Len(kept)
        /\ origModels[j] = Catalogue(scene[j].url)
        /\ \A c \in 1..Len(kept) :
              /\ Len(scene[j].children[c].positions) = Len(kept[c].array)
              /\ \A v \in 0..(Len(kept[c].array) \div 3 - 1) :
                    GetXYZ(scene[j].children[c].positions, v)
                        = Stored(Forward(WorldOf(kept[c], GetXYZ(kept[c].array, v))))

Exactly(p) == p

\* C5 as stated: output vertex v of a rewritten mesh equals
\* converter.forward(localToWorld(input vertex v)), with the same number of
\* vertices in the same order, and the source positions are left unchanged.
C5_VerticesExact == RewrittenAs(Exactly)

\* C5 as amended: output vertex v is converter.forward(localToWorld(input
\* vertex v)) rounded to the single precision of the fresh Float32Array, with
\* the same number of vertices in the same order, and the source positions
\* are left unchanged.
C5_VerticesRounded == RewrittenAs(FroundVec)

C5_Witness ==
    /\ Len(scene) >= 1
    /\ scene[1].url = "nested"
    /\ Len(scene[1].children) = 2
    /\ GetXYZ(scene[1].children[2].positions, 2)
          # Forward(WorldOf(Catalogue("nested")[3], <<1, 3, 7>>))

-----------------------------------------------------------------------------
(* Claims about the drawing area, under SpecArea.                          *)

AreaKnown == areaPc \in {"area", "done"}

C7_BranchByAspect ==
    AreaKnown =>
        LET w == drawingArea[3]
            h == drawingArea[4]
        IN  /\ IF argAspect.n * innerHeight > innerWidth * argAspect.d
               THEN w = RInt(innerWidth)
                    /\ h = Rat(innerWidth * argAspect.d, argAspect.n)
               ELSE h = RInt(innerHeight)
                    /\ w = Rat(innerHeight * argAspect.n, argAspect.d)
            /\ w.n * h.d * argAspect.d = h.n * argAspect.n * w.d

C7_Witness ==
    /\ AreaKnown
    /\ innerWidth = 2 /\ innerHeight = 3
    /\ argAspect = Rat(3, 2)
    /\ drawingArea[3] = RInt(2)
    /\ drawingArea[4] = Rat(4, 3)

\* C8: withinDrawingNDC is true exactly when both coordinates lie in the
\* closed interval [-1, 1]; the values -1 and 1 are inside.
C8_ClosedUnitSquare ==
    areaPc = "done" =>
        (within <=> (/\ argCoord.x.n * argCoord.x.n <= argCoord.x.d * argCoord.x.d
                     /\ argCoord.y.n * argCoord.y.n <= argCoord.y.d * argCoord.y.d))

C8_Witness ==
    /\ areaPc = "done"
    /\ argCoord.x = RInt(1)
    /\ argCoord.y = RInt(-1)
    /\ within

-----------------------------------------------------------------------------
(* Claims about the renderer and the camera of the running application     *)
(* (SpecApp).                                                              *)

\* The steps that call setDrawingArea: createRenderer at start-up,
\* window.onresize, and the arrow-key handler after its metadata arrived.
SetDrawingAreaCalled ==
    \/ StartupMetadataLoaded
    \/ /\ appPc = "running"
       /\ \E size \in AppWindowSizes, pixelRatio \in DevicePixelRatios :
             Resize(size, pixelRatio)
    \/ \E h \in 1..Len(handlers) : OnMetadata(h)

\* C9: after every call of setDrawingArea the renderer's viewport and its
\* scissor rectangle are the same rectangle, it is calcDrawingArea of the
\* camera's aspect ratio for the current window size, and the renderer's
\* pixel ratio is the current device pixel ratio.
C9_ViewportIsDrawingArea ==
    [][SetDrawingAreaCalled =>
          /\ renderer'.viewport = renderer'.scissor
          /\ renderer'.viewport = CalcDrawingArea(camera'.aspect, innerWidth',
                                                  innerHeight')
          /\ renderer'.pixelRatio = devicePixelRatio']_vars

C9_Witness ==
    /\ appPc = "running"
    /\ innerWidth = 3 /\ innerHeight = 4
    /\ devicePixelRatio = 2
    /\ camera.aspect = Rat(3, 2)
    /\ renderer.viewport = Rect(RInt(0), RInt(1), RInt(3), RInt(2))
    /\ renderer.scissor = Rect(RInt(0), RInt(1), RInt(3), RInt(2))
    /\ renderer.pixelRatio = 2

\* The camera as setCameraMetadata leaves it for item n.
PoseOf(n) ==
    LET metadata == MetadataAt(n)
        position == <<metadata.x, metadata.y, metadata.z>>
        rotation == CameraRotationYPR(DegToRad(metadata.yaw), DegToRad(metadata.pitch),
                                      DegToRad(metadata.roll), TRUE)
        aspect   == AspectRatioFromFov(metadata.hfov, metadata.vfov)
    IN  [position |-> position, rotation |-> rotation,
         fov |-> metadata.vfov, aspect |-> aspect,
         matrixWorld |-> [position |-> position, rotation |-> rotation],
         projectionMatrix |-> [fov |-> metadata.vfov, aspect |-> aspect]]

\* C10: every rendered frame sees a camera whose position, orientation,
\* vertical field of view and aspect ratio all come from one pose, with the
\* world and the projection matrix computed from that same pose.
C10_FrameSeesOnePose ==
    rendered.drawn => \E n \in minItem..maxItem : rendered.camera = PoseOf(n)

\* A frame drawn between the two awaits of an arrow-key handler.
C10_Witness ==
    /\ rendered.drawn
    /\ rendered.camera = PoseOf(2)
    /\ \E h \in 1..Len(handlers) :
          handlers[h].item = 2 /\ handlers[h].stage = "image"

-----------------------------------------------------------------------------
(* Claims about the camera's field of view and aspect ratio (SpecApp).     *)

\* The camera holds the pose of item n, with the vertical field of view of
\* that pose and the aspect ratio tan(hfov/2) / tan(vfov/2).
HoldsPose(n) ==
    LET metadata == MetadataAt(n)
    IN  /\ camera.position = <<metadata.x, metadata.y, metadata.z>>
        /\ camera.fov = metadata.vfov
        /\ camera.aspect = RDiv(TanHalfFov(metadata.hfov), TanHalfFov(metadata.vfov))

-----------------------------------------------------------------------------
(* Claims about matrixYPR and cameraRotationYPR (SpecRot) and about        *)
(* createUtmToEcefConverter (SpecZone).                                    *)

\* RotZ(90 deg) * RotX(-90 deg), written out.
Permutation == <<<<0, 0, -1>>, <<1, 0, 0>>, <<0, -1, 0>>>>

\* C12: matrixYPR(0, 0, 0) is the identity; cameraRotationYPR(0, 0, 0, true)
\* is exactly RotZ(90 deg) * RotX(-90 deg); cameraRotationYPR with the flag
\* false is matrixYPR of the same angles alone.
C12_ZeroAnglesAndFlag ==
    fnPc = "done" =>
        /\ (argYaw = 0 /\ argPitch = 0 /\ argRoll = 0) =>
              /\ ypr = <<<<1, 0, 0>>, <<0, 1, 0>>, <<0, 0, 1>>>>
              /\ argToEcef => cameraRot = Permutation
        /\ ~argToEcef => cameraRot = ypr

C12_Witness ==
    /\ fnPc = "done"
    /\ argYaw = 0 /\ argPitch = 0 /\ argRoll = 0
    /\ argToEcef
    /\ cameraRot = Permutation

Transpose(m) == [r \in 1..3 |-> [c \in 1..3 |-> m[c][r]]]

Det3(m) ==
    m[1][1] * (m[2][2] * m[3][3] - m[2][3] * m[3][2])
    - m[1][2] * (m[2][1] * m[3][3] - m[2][3] * m[3][1])
    + m[1][3] * (m[2][1] * m[3][2] - m[2][2] * m[3][1])

\* C17: for angles that are multiples of 90 degrees matrixYPR equals
\* RotZ(yaw) * RotY(pitch) * RotX(roll), is orthonormal with determinant +1,
\* and its first column is the forward (+X) direction of the rotated frame.
C17_IntrinsicYawPitchRoll ==
    fnPc \in {"ypr", "done"} =>
        LET composed == MatMul(MakeRotationZ(argYaw),
                               MatMul(MakeRotationY(argPitch), MakeRotationX(argRoll)))
        IN  /\ ypr = composed
            /\ MatMul(ypr, Transpose(ypr)) = <<<<1, 0, 0>>, <<0, 1, 0>>, <<0, 0, 1>>>>
            /\ Det3(ypr) = 1
            /\ <<ypr[1][1], ypr[2][1], ypr[3][1]>> = MatVec(composed, <<1, 0, 0>>)

\* Yaw 90, pitch -90, roll 180 degrees.
C17_Witness ==
    /\ fnPc = "ypr"
    /\ argYaw = 1 /\ argPitch = -1 /\ argRoll = 2
    /\ ypr = <<<<0, 1, 0>>, <<0, 0, 1>>, <<1, 0, 0>>>>

\* C13: construction fails for every zone outside 1..60 and gives a
\* converter for every zone in 1..60.
C13_InvalidZoneFails ==
    fnPc = "made" => (converter.made <=> argZone \in 1..60)

-----------------------------------------------------------------------------
(* Claims about failures, overlapping key presses and resizing in the      *)
(* running application (SpecApp).                                          *)

\* C14: every failed fetch ends in an error outcome; none is swallowed,
\* those of the fetches started by the keydown handler included.  The only
\* error outcome the application produces is the text node of its catch
\* block.
C14_NoFailureSwallowed == failures # {} => bodyText # <<>>

\* C18: once no fetch of a key press is pending (and none has failed), the
\* camera pose and the overlay image are those of currentItem, in whatever
\* order the responses arrived.
C18_LastPressWins ==
    (appPc = "running" /\ handlers = <<>> /\ failures = {}) =>
        /\ camera = PoseOf(currentItem)
        /\ overlay.image = currentItem

\* C19: whenever a frame is rendered, the viewport and the scissor rectangle
\* are calcDrawingArea of the camera's aspect ratio for the current window
\* size.
C19_ViewportAtEveryFrame ==
    [][(\E hit \in BOOLEAN : Frame(hit)) =>
          /\ renderer.viewport = CalcDrawingArea(camera.aspect, innerWidth, innerHeight)
          /\ renderer.scissor = CalcDrawingArea(camera.aspect, innerWidth, innerHeight)]_vars

-----------------------------------------------------------------------------
(* A claim about the scene after a failed tile load (SpecTiles).           *)

\* C16: when the loader fails at a tile k > 0 the scene is as it was before
\* the call (empty here): none of the tiles 0..k-1 remains attached to it.
C16_SceneRestoredOnFailure == result.state = "rejected" => scene = <<>>

-----------------------------------------------------------------------------
(* Claims about picking with the pointer (SpecPick).                       *)

\* The NDC position lies outside [-1, 1] x [-1, 1].
OutsideNDC(coord) ==
    \/ coord.x.n * coord.x.n > coord.x.d * coord.x.d
    \/ coord.y.n * coord.y.n > coord.y.d * coord.y.d

\* C15: a frame that finds the pointer NDC outside [-1, 1] x [-1, 1] casts
\* no ray: it adds no elf model, leaves the coordinate text empty and the
\* normal arrow hidden, whatever mouseClicked, showCoord and showNormal are.
C15_NoPickOutsideDrawingArea ==
    [][((\E hit \in BOOLEAN : Frame(hit)) /\ OutsideNDC(mousePos)) =>
          /\ elfs' = elfs
          /\ coordText' = ""
          /\ ~arrowVisible']_vars

\* A frame with a click pending and both displays switched on, the pointer
\* in the margin.
C15_Witness ==
    /\ rendered.cast = "outside"
    /\ OutsideNDC(mousePos)
    /\ showCoord /\ showNormal
    /\ elfs = 0 /\ coordText = "" /\ ~arrowVisible

\* The last reported pointer position lies in the drawing area of the
\* current window and camera.
PointerInDrawingArea ==
    LET drawingArea_ == CalcDrawingArea(camera.aspect, innerWidth, innerHeight)
        left   == drawingArea_[1]
        top    == drawingArea_[2]
        right  == RAdd(drawingArea_[1], drawingArea_[3])
        bottom == RAdd(drawingArea_[2], drawingArea_[4])
    IN  /\ RLe(left, RInt(pointer[1])) /\ RLe(RInt(pointer[1]), right)
        /\ RLe(top, RInt(pointer[2])) /\ RLe(RInt(pointer[2]), bottom)

\* C20: at every frame withinDrawingNDC(mousePos) is true exactly when the
\* last reported pointer position lies inside the current drawing area, also
\* after a resize that followed the last mousemove.
C20_NdcFollowsDrawingArea ==
    [][((\E hit \in BOOLEAN : Frame(hit)) /\ pointer # NoPointer) =>
          (WithinDrawingNDC(mousePos) <=> PointerInDrawingArea)]_vars

-----------------------------------------------------------------------------
(* Claims about the wireframe key and about clicks (SpecPick).             *)

\* C21: one press of KeyW negates the wireframe flag of every terrain mesh
\* of every tile, however many child meshes the tile has.
C21_WireframeToggled ==
    [][KeyW =>
          \A t \in 1..Len(scene) :
              \A m \in 1..Len(scene[t].children) :
                  scene'[t].material.wireframe = ~scene[t].material.wireframe]_vars

\* C22: mouseClicked is false at the end of every frame, hit or not; a frame
\* adds at most one elf model, and none unless a click is pending.
C22_ClickLastsOneFrame ==
    [][(\E hit \in BOOLEAN : Frame(hit)) =>
          /\ mouseClicked' = FALSE
          /\ elfs' <= elfs + 1
          /\ ~mouseClicked => elfs' = elfs]_vars

\* The click was used up by an earlier frame, which added one elf model; the
\* last frame had nothing to pick and added none.
C22_Witness ==
    /\ rendered.cast = "idle"
    /\ elfs = 1
    /\ ~mouseClicked /\ ~showCoord /\ ~showNormal

====
